---- MODULE Spec2Model ----
(***************************************************************************)
(* etag(entity, options) of src/index.js as a state machine.               *)
(*                                                                         *)
(* One behaviour is one call: Init chooses the arguments, and the actions  *)
(* follow the statements of etag() in order (required check, classify,     *)
(* validate, generate, format).  JavaScript values are tagged records,     *)
(* strings are sequences of UTF-16 code units, Buffers are sequences of    *)
(* bytes, and the library calls the code makes (SHA-1, base64, UTF-8,      *)
(* Number.prototype.toString(16)) are computed, not assumed.               *)
(***************************************************************************)
EXTENDS Integers, Sequences, FiniteSets, TLC

VARIABLES entity, options, pc, isStats, weak, tag, ret, errName, errMsg,
          hashCalls, statCalls, entityCalls

vars == <<entity, options, pc, isStats, weak, tag, ret, errName, errMsg,
          hashCalls, statCalls, entityCalls>>

(***************************************************************************)
(* Bounds of the model.                                                    *)
(***************************************************************************)
MaxStrLen == 2
MaxBufLen == 2
MaxTime == 255
MaxSize == 255

(***************************************************************************)
(* Strings: sequences of UTF-16 code units.  Str turns a sequence of       *)
(* one-character strings (printable ASCII, codes 32..126; code 96 goes by  *)
(* the name "grave") into code units.                                      *)
(***************************************************************************)
AsciiPrintable ==
    <<" ", "!", "\"", "#", "$", "%", "&", "'", "(", ")", "*", "+", ",", "-", ".", "/",
      "0", "1", "2", "3", "4", "5", "6", "7", "8", "9", ":", ";", "<", "=", ">", "?",
      "@", "A", "B", "C", "D", "E", "F", "G", "H", "I", "J", "K", "L", "M", "N", "O",
      "P", "Q", "R", "S", "T", "U", "V", "W", "X", "Y", "Z", "[", "\\", "]", "^", "_",
      "grave", "a", "b", "c", "d", "e", "f", "g", "h", "i", "j", "k", "l", "m", "n", "o",
      "p", "q", "r", "s", "t", "u", "v", "w", "x", "y", "z", "{", "|", "}", "~">>

Ord(c) == 31 + (CHOOSE i \in 1..Len(AsciiPrintable) : AsciiPrintable[i] = c)

Str(cs) == [i \in 1..Len(cs) |-> Ord(cs[i])]

(***************************************************************************)
(* JavaScript values.                                                      *)
(***************************************************************************)
Undefined == [t |-> "undefined"]
Null == [t |-> "null"]
Absent == [t |-> "absent"]          \* a property the object does not have
Bool(b) == [t |-> "boolean", b |-> b]
Number(n) == [t |-> "number", n |-> n]
String(s) == [t |-> "string", s |-> s]
BufferOf(bytes) == [t |-> "buffer", bytes |-> bytes]
DateOf(time) == [t |-> "date", time |-> time]
Object(stats, ctime, mtime, ino, size) ==
    [t |-> "object", stats |-> stats, ctime |-> ctime, mtime |-> mtime,
     ino |-> ino, size |-> size]
OptionsObject(w) == [t |-> "options", weak |-> w]

\* numbers: finite multiples of 1/16, NaN, +-Infinity
Fin(neg, i, f) == [k |-> "fin", neg |-> neg, i |-> i, f |-> f]
Integer(n) == IF n < 0 THEN Fin(TRUE, 0 - n, 0) ELSE Fin(FALSE, n, 0)
NaN == [k |-> "nan", neg |-> FALSE, i |-> 0, f |-> 0]
Infinity == [k |-> "inf", neg |-> FALSE, i |-> 0, f |-> 0]

typeof(v) ==
    CASE v.t = "undefined" -> "undefined"
      [] v.t = "boolean" -> "boolean"
      [] v.t = "number" -> "number"
      [] v.t = "string" -> "string"
      [] OTHER -> "object"

ToBoolean(v) ==
    CASE v.t \in {"undefined", "null", "absent"} -> FALSE
      [] v.t = "boolean" -> v.b
      [] v.t = "number" -> v.n.k = "inf" \/ (v.n.k = "fin" /\ (v.n.i # 0 \/ v.n.f # 0))
      [] v.t = "string" -> Len(v.s) > 0
      [] OTHER -> TRUE

\* obj.name for the four properties isstats and stattag read
Get(obj, name) ==
    IF obj.t # "object" THEN Undefined
    ELSE LET p == CASE name = "ctime" -> obj.ctime
                    [] name = "mtime" -> obj.mtime
                    [] name = "ino" -> obj.ino
                    [] name = "size" -> obj.size
         IN IF p.t = "absent" THEN Undefined ELSE p

\* name in obj, for a value whose typeof is "object" and that is not null
In(name, obj) ==
    /\ obj.t = "object"
    /\ CASE name = "ctime" -> obj.ctime.t # "absent"
         [] name = "mtime" -> obj.mtime.t # "absent"
         [] name = "ino" -> obj.ino.t # "absent"
         [] name = "size" -> obj.size.t # "absent"

\* Object.prototype.toString.call(v) === "[object Date]"
IsDateTag(v) == v.t = "date"

InstanceOfStats(v) == v.t = "object" /\ v.stats

IsBuffer(v) == v.t = "buffer"

(***************************************************************************)
(* Number.prototype.toString(radix); the fraction digit is exact for the   *)
(* radix the code uses, 16.                                                *)
(***************************************************************************)
Radix == 16

HexDigits == Str(<<"0", "1", "2", "3", "4", "5", "6", "7", "8", "9",
                   "a", "b", "c", "d", "e", "f">>)

RECURSIVE NatToString(_, _)
NatToString(n, radix) ==
    IF n < radix THEN <<HexDigits[n + 1]>>
    ELSE Append(NatToString(n \div radix, radix), HexDigits[(n % radix) + 1])

NumberToString(n, radix) ==
    CASE n.k = "nan" -> Str(<<"N", "a", "N">>)
      [] n.k = "inf" -> (IF n.neg THEN Str(<<"-">>) ELSE <<>>)
                        \o Str(<<"I", "n", "f", "i", "n", "i", "t", "y">>)
      [] OTHER -> (IF n.neg /\ (n.i # 0 \/ n.f # 0) THEN Str(<<"-">>) ELSE <<>>)
                  \o NatToString(n.i, radix)
                  \o (IF n.f = 0 THEN <<>>
                      ELSE Str(<<".">>) \o NatToString((n.f * radix) \div 16, radix))

(***************************************************************************)
(* UTF-8: what update(entity, "utf8") hashes for a string, and what        *)
(* Buffer.byteLength(entity, "utf8") counts.  A surrogate pair is one      *)
(* 4-byte sequence, a lone surrogate is encoded as U+FFFD.                 *)
(***************************************************************************)
IsHighSurrogate(c) == c >= 55296 /\ c <= 56319
IsLowSurrogate(c) == c >= 56320 /\ c <= 57343

RECURSIVE Utf8Encode(_)
Utf8Encode(s) ==
    IF s = <<>> THEN <<>>
    ELSE LET c == Head(s)
         IN IF c < 128 THEN <<c>> \o Utf8Encode(Tail(s))
            ELSE IF c < 2048
            THEN <<192 + (c \div 64), 128 + (c % 64)>> \o Utf8Encode(Tail(s))
            ELSE IF IsHighSurrogate(c) /\ Len(s) >= 2 /\ IsLowSurrogate(s[2])
            THEN LET cp == 65536 + ((c - 55296) * 1024) + (s[2] - 56320)
                 IN <<240 + (cp \div 262144), 128 + ((cp \div 4096) % 64),
                      128 + ((cp \div 64) % 64), 128 + (cp % 64)>>
                    \o Utf8Encode(Tail(Tail(s)))
            ELSE IF IsHighSurrogate(c) \/ IsLowSurrogate(c)
            THEN <<239, 191, 189>> \o Utf8Encode(Tail(s))
            ELSE <<224 + (c \div 4096), 128 + ((c \div 64) % 64), 128 + (c % 64)>>
                 \o Utf8Encode(Tail(s))

RECURSIVE byteLength(_)
byteLength(s) ==
    IF s = <<>> THEN 0
    ELSE LET c == Head(s)
         IN IF c < 128 THEN 1 + byteLength(Tail(s))
            ELSE IF c < 2048 THEN 2 + byteLength(Tail(s))
            ELSE IF IsHighSurrogate(c) /\ Len(s) >= 2 /\ IsLowSurrogate(s[2])
            THEN 4 + byteLength(Tail(Tail(s)))
            ELSE 3 + byteLength(Tail(s))

(***************************************************************************)
(* SHA-1 (FIPS 180-4) on 32-bit words kept as <<high 16 bits, low 16       *)
(* bits>>, so that no intermediate value leaves the 32-bit integers.       *)
(***************************************************************************)
RECURSIVE XorBits(_, _)
XorBits(a, b) ==
    IF a = 0 THEN b
    ELSE IF b = 0 THEN a
    ELSE 2 * XorBits(a \div 2, b \div 2) + ((a + b) % 2)

RECURSIVE AndBits(_, _)
AndBits(a, b) ==
    IF a = 0 \/ b = 0 THEN 0
    ELSE 2 * AndBits(a \div 2, b \div 2) + ((a % 2) * (b % 2))

XorTable == [a \in 0..255 |-> [b \in 0..255 |-> XorBits(a, b)]]
AndTable == [a \in 0..255 |-> [b \in 0..255 |-> AndBits(a, b)]]

Xor16(a, b) == XorTable[a \div 256][b \div 256] * 256 + XorTable[a % 256][b % 256]
And16(a, b) == AndTable[a \div 256][b \div 256] * 256 + AndTable[a % 256][b % 256]
Or16(a, b) == a + b - And16(a, b)
Not16(a) == 65535 - a

WXor(x, y) == <<Xor16(x[1], y[1]), Xor16(x[2], y[2])>>
WAnd(x, y) == <<And16(x[1], y[1]), And16(x[2], y[2])>>
WOr(x, y) == <<Or16(x[1], y[1]), Or16(x[2], y[2])>>
WNot(x) == <<Not16(x[1]), Not16(x[2])>>
WAdd(x, y) ==
    LET lo == x[2] + y[2]
        hi == x[1] + y[1] + (lo \div 65536)
    IN <<hi % 65536, lo % 65536>>

RECURSIVE Pow2(_)
Pow2(n) == IF n = 0 THEN 1 ELSE 2 * Pow2(n - 1)

\* rotate left by n bits, 0 < n < 32
Rotl(x, n) ==
    LET y == IF n < 16 THEN x ELSE <<x[2], x[1]>>
        m == n % 16
    IN IF m = 0 THEN y
       ELSE <<((y[1] * Pow2(m)) % 65536) + (y[2] \div Pow2(16 - m)),
              ((y[2] * Pow2(m)) % 65536) + (y[1] \div Pow2(16 - m))>>

ShaPad(m) ==
    LET l == Len(m)
        zeros == [i \in 1..((55 - l) % 64) |-> 0]
        bits == 8 * l
    IN m \o <<128>> \o zeros \o <<0, 0, 0, 0>>
       \o <<(bits \div 16777216) % 256, (bits \div 65536) % 256,
            (bits \div 256) % 256, bits % 256>>

ShaBlockWords(p, b) ==
    [i \in 1..16 |->
        LET o == (64 * b) + (4 * (i - 1))
        IN <<(p[o + 1] * 256) + p[o + 2], (p[o + 3] * 256) + p[o + 4]>>]

RECURSIVE ShaSchedule(_)
ShaSchedule(w) ==
    IF Len(w) = 80 THEN w
    ELSE LET t == Len(w) + 1
         IN ShaSchedule(Append(w,
                Rotl(WXor(WXor(w[t - 3], w[t - 8]), WXor(w[t - 14], w[t - 16])), 1)))

ShaF(t, b, c, d) ==
    IF t < 20 THEN WOr(WAnd(b, c), WAnd(WNot(b), d))
    ELSE IF t < 40 THEN WXor(WXor(b, c), d)
    ELSE IF t < 60 THEN WOr(WOr(WAnd(b, c), WAnd(b, d)), WAnd(c, d))
    ELSE WXor(WXor(b, c), d)

\* 5A827999, 6ED9EBA1, 8F1BBCDC, CA62C1D6
ShaK(t) ==
    IF t < 20 THEN <<23170, 31129>>
    ELSE IF t < 40 THEN <<28377, 60321>>
    ELSE IF t < 60 THEN <<36635, 48348>>
    ELSE <<51810, 49622>>

ShaRound(s, w, t) ==
    <<WAdd(WAdd(WAdd(WAdd(Rotl(s[1], 5), ShaF(t, s[2], s[3], s[4])), s[5]), ShaK(t)),
           w[t + 1]),
      s[1], Rotl(s[2], 30), s[3], s[4]>>

RECURSIVE ShaRounds(_, _, _)
ShaRounds(s, w, t) ==
    IF Len(s) = 5 /\ t = 80 THEN s
    ELSE ShaRounds(ShaRound(s, w, t), w, t + 1)

\* 67452301, EFCDAB89, 98BADCFE, 10325476, C3D2E1F0
ShaInit ==
    <<<<26437, 8961>>, <<61389, 43913>>, <<39098, 56574>>, <<4146, 21622>>,
      <<50130, 57840>>>>

RECURSIVE ShaBlocks(_, _, _)
ShaBlocks(h, p, b) ==
    IF 64 * b >= Len(p) THEN h
    ELSE LET r == ShaRounds(h, ShaSchedule(ShaBlockWords(p, b)), 0)
         IN ShaBlocks([i \in 1..5 |-> WAdd(h[i], r[i])], p, b + 1)

\* the 20 digest bytes
Sha1(m) ==
    LET h == ShaBlocks(ShaInit, ShaPad(m), 0)
    IN [i \in 1..20 |->
           LET w == h[((i - 1) \div 4) + 1]
               half == IF ((i - 1) % 4) < 2 THEN w[1] ELSE w[2]
           IN IF (i - 1) % 2 = 0 THEN half \div 256 ELSE half % 256]

(***************************************************************************)
(* base64 (RFC 4648, with padding): digest("base64").                      *)
(***************************************************************************)
Base64Alphabet ==
    Str(<<"A", "B", "C", "D", "E", "F", "G", "H", "I", "J", "K", "L", "M", "N", "O", "P",
          "Q", "R", "S", "T", "U", "V", "W", "X", "Y", "Z", "a", "b", "c", "d", "e", "f",
          "g", "h", "i", "j", "k", "l", "m", "n", "o", "p", "q", "r", "s", "t", "u", "v",
          "w", "x", "y", "z", "0", "1", "2", "3", "4", "5", "6", "7", "8", "9", "+", "/">>)

Base64Pad == Ord("=")

RECURSIVE Base64Encode(_)
Base64Encode(b) ==
    IF Len(b) = 0 THEN <<>>
    ELSE IF Len(b) = 1
    THEN <<Base64Alphabet[(b[1] \div 4) + 1], Base64Alphabet[((b[1] % 4) * 16) + 1],
           Base64Pad, Base64Pad>>
    ELSE IF Len(b) = 2
    THEN <<Base64Alphabet[(b[1] \div 4) + 1],
           Base64Alphabet[((b[1] % 4) * 16) + (b[2] \div 16) + 1],
           Base64Alphabet[((b[2] % 16) * 4) + 1], Base64Pad>>
    ELSE <<Base64Alphabet[(b[1] \div 4) + 1],
           Base64Alphabet[((b[1] % 4) * 16) + (b[2] \div 16) + 1],
           Base64Alphabet[((b[2] % 16) * 4) + (b[3] \div 64) + 1],
           Base64Alphabet[(b[3] % 64) + 1]>>
         \o Base64Encode(SubSeq(b, 4, Len(b)))

\* String.prototype.substring(from, to), 0 <= from
substring(s, from, to) ==
    SubSeq(s, from + 1, IF to < Len(s) THEN to ELSE Len(s))

(***************************************************************************)
(* src/index.js                                                            *)
(***************************************************************************)
StatsType == "function"             \* typeof require("fs").Stats

DigestPrefixLen == 27

Quote == Str(<<"\"">>)
Hyphen == Str(<<"-">>)
WeakPrefix == Str(<<"W", "/">>)

\* variant: the untruncated base64 digest, padding included
EmptyTag_Padded ==
    Str(<<"\"", "0", "-", "2", "j", "m", "j", "7", "l", "5", "r", "S", "w", "0", "y",
          "V", "b", "/", "v", "l", "W", "A", "Y", "k", "K", "/", "Y", "B", "w", "k", "=",
          "\"">>)

EmptyTag ==
    Str(<<"\"", "0", "-", "2", "j", "m", "j", "7", "l", "5", "r", "S", "w", "0", "y",
          "V", "b", "/", "v", "l", "W", "A", "Y", "k", "K", "/", "Y", "B", "w", "k", "\"">>)

RequiredMessage == "argument entity is required"
InvalidMessage == "argument entity must be string, Buffer, or fs.Stats"

\* entity.length of a string or a Buffer
Length(ent) == IF ent.t = "string" THEN Len(ent.s) ELSE Len(ent.bytes)

\* the bytes update(entity, "utf8") feeds the hash
update(ent) == IF ent.t = "string" THEN Utf8Encode(ent.s) ELSE ent.bytes

\* createHash("sha1").update(entity, "utf8").digest("base64")
digest(ent) == Base64Encode(Sha1(update(ent)))

\* variant: the length prefix counts characters, not UTF-8 bytes
entitytag_CharLength(ent) ==
    IF Length(ent) = 0
    THEN [tag |-> Quote \o Str(<<"0", "-", "2", "j", "m", "j", "7", "l", "5", "r", "S", "w",
                                   "0", "y", "V", "b", "/", "v", "l", "W", "A", "Y", "k",
                                   "K", "/", "Y", "B", "w", "k">>) \o Quote,
          hashes |-> 0]
    ELSE LET hash == substring(digest(ent), 0, DigestPrefixLen)
         IN [tag |-> Quote \o NumberToString(Integer(Length(ent)), Radix) \o Hyphen
                     \o hash \o Quote,
             hashes |-> 1]

\* variant: no fast path for empty content
entitytag_NoFastPath(ent) ==
    LET hash == substring(digest(ent), 0, DigestPrefixLen)
        len == IF typeof(ent) = "string" THEN byteLength(ent.s) ELSE Length(ent)
    IN [tag |-> Quote \o NumberToString(Integer(len), Radix) \o Hyphen \o hash \o Quote,
        hashes |-> 1]

\* [tag, hashes]: the tag returned and the number of createHash calls made
entitytag(ent) ==
    IF Length(ent) = 0
    THEN [tag |-> EmptyTag, hashes |-> 0]
    ELSE LET hash == substring(digest(ent), 0, DigestPrefixLen)
             len == IF typeof(ent) = "string" THEN byteLength(ent.s)
                    ELSE Length(ent)
         IN [tag |-> Quote \o NumberToString(Integer(len), Radix) \o Hyphen \o hash \o Quote,
             hashes |-> 1]

\* variant: the shape test does not look at size
isstats_NoSizeCheck(obj) ==
    IF StatsType = "function" /\ InstanceOfStats(obj) THEN Bool(TRUE)
    ELSE IF ~ToBoolean(obj) THEN obj
    ELSE Bool(/\ typeof(obj) = "object"
              /\ In("ctime", obj)
              /\ IsDateTag(Get(obj, "ctime"))
              /\ In("mtime", obj)
              /\ IsDateTag(Get(obj, "mtime"))
              /\ In("ino", obj)
              /\ typeof(Get(obj, "ino")) = "number")

\* the value of the expression isstats returns: true, or the result of the && chain
\* (obj itself when obj is falsy)
isstats(obj) ==
    IF StatsType = "function" /\ InstanceOfStats(obj) THEN Bool(TRUE)
    ELSE IF ~ToBoolean(obj) THEN obj
    ELSE Bool(/\ typeof(obj) = "object"
              /\ In("ctime", obj)
              /\ IsDateTag(Get(obj, "ctime"))
              /\ In("mtime", obj)
              /\ IsDateTag(Get(obj, "mtime"))
              /\ In("ino", obj)
              /\ typeof(Get(obj, "ino")) = "number"
              /\ In("size", obj)
              /\ typeof(Get(obj, "size")) = "number")

\* v.toString(16) for the values a size property holds in this model
toString(v, radix) ==
    CASE v.t = "number" -> NumberToString(v.n, radix)
      [] v.t = "string" -> v.s
      [] v.t = "boolean" -> IF v.b THEN Str(<<"t", "r", "u", "e">>)
                            ELSE Str(<<"f", "a", "l", "s", "e">>)
      [] v.t = "date" /\ v.time.k = "nan" ->
             Str(<<"I", "n", "v", "a", "l", "i", "d", " ", "D", "a", "t", "e">>)

\* variant: the time is taken from ctime
stattag_Ctime(stat) ==
    LET m == Get(stat, "ctime")
        sz == Get(stat, "size")
    IN IF m.t # "date"
       THEN [threw |-> TRUE, msg |-> "stat.ctime.getTime is not a function", tag |-> <<>>]
       ELSE IF sz.t \in {"undefined", "null"}
       THEN [threw |-> TRUE, msg |-> "Cannot read properties of undefined (reading 'toString')",
             tag |-> <<>>]
       ELSE [threw |-> FALSE, msg |-> "",
             tag |-> Quote \o toString(sz, Radix) \o Hyphen
                     \o NumberToString(m.time, Radix) \o Quote]

\* variant: size and mtime are joined without the "-"
stattag_NoSeparator(stat) ==
    LET m == Get(stat, "mtime")
        sz == Get(stat, "size")
    IN IF m.t # "date"
       THEN [threw |-> TRUE, msg |-> "stat.mtime.getTime is not a function", tag |-> <<>>]
       ELSE IF sz.t \in {"undefined", "null"}
       THEN [threw |-> TRUE, msg |-> "Cannot read properties of undefined (reading 'toString')",
             tag |-> <<>>]
       ELSE [threw |-> FALSE, msg |-> "",
             tag |-> Quote \o toString(sz, Radix) \o NumberToString(m.time, Radix) \o Quote]

\* [threw, msg, tag]: stat.mtime.getTime() and stat.size.toString(16) raise the
\* engine's TypeError when the property is not of the kind that has the method
stattag(stat) ==
    LET m == Get(stat, "mtime")
        sz == Get(stat, "size")
    IN IF m.t # "date"
       THEN [threw |-> TRUE, msg |-> "stat.mtime.getTime is not a function", tag |-> <<>>]
       ELSE IF sz.t \in {"undefined", "null"}
       THEN [threw |-> TRUE, msg |-> "Cannot read properties of undefined (reading 'toString')",
             tag |-> <<>>]
       ELSE [threw |-> FALSE, msg |-> "",
             tag |-> Quote \o toString(sz, Radix) \o Hyphen
                     \o NumberToString(m.time, Radix) \o Quote]

\* options.weak
OptionsWeak(opts) ==
    IF opts.t = "options" /\ opts.weak.t # "absent" THEN opts.weak ELSE Undefined

\* variant: options.weak is tested for truth, not for being a boolean
ResolveWeak_Truthy(opts, stats) ==
    IF ToBoolean(opts) /\ ToBoolean(OptionsWeak(opts))
    THEN OptionsWeak(opts)
    ELSE stats

\* options && typeof options.weak === "boolean" ? options.weak : isStats
ResolveWeak(opts, stats) ==
    IF ToBoolean(opts) /\ typeof(OptionsWeak(opts)) = "boolean"
    THEN OptionsWeak(opts)
    ELSE stats

\* weak ? "W/" + tag : tag
FormatTag(w, tg) == IF ToBoolean(w) THEN WeakPrefix \o tg ELSE tg

(***************************************************************************)
(* The arguments of a call.                                                *)
(***************************************************************************)
SeqsUpTo(S, n) == UNION {[1..k -> S] : k \in 0..n}

StrChars == {97, 233, 8364}         \* a, e-acute (2 bytes), euro sign (3 bytes)
HelloWorld == Str(<<"h", "e", "l", "l", "o", " ", "w", "o", "r", "l", "d">>)
Strings ==
    SeqsUpTo(StrChars, MaxStrLen)
        \cup {HelloWorld, <<55357, 56832>>, <<55357>>, [i \in 1..64 |-> 97]}

BufBytes == {0, 255}
Buffers == SeqsUpTo(BufBytes, MaxBufLen) \cup {[i \in 1..16 |-> 0]}

Times == {Integer(t) : t \in {0 - MaxTime, -1, 0, 1, 16, MaxTime}} \cup {NaN}
Sizes == {Integer(n) : n \in {0, 1, 17, MaxSize}} \cup {Fin(FALSE, 1, 8), NaN}

CtimeValues == {Absent, DateOf(Integer(0)), DateOf(Integer(1)), Number(Integer(0))}
MtimeValues == {Absent, Null, Number(Integer(0))} \cup {DateOf(t) : t \in Times}
InoValues == {Absent, Number(Integer(0)), Number(Integer(1)), String(Str(<<"1">>))}
SizeValues ==
    {Absent, Undefined, String(Quote), DateOf(NaN)} \cup {Number(n) : n \in Sizes}

Objects ==
    {Object(st, c, m, i, sz) :
        st \in BOOLEAN, c \in CtimeValues, m \in MtimeValues, i \in InoValues,
        sz \in SizeValues}

Entities ==
    {Undefined, Null, Bool(TRUE), Bool(FALSE), Number(Integer(42)), Number(Integer(0)),
     Number(NaN), DateOf(Integer(0))}
        \cup {String(s) : s \in Strings}
        \cup {BufferOf(b) : b \in Buffers}
        \cup Objects

OptionsValues ==
    {Undefined, Null, OptionsObject(Absent), OptionsObject(Bool(TRUE)),
     OptionsObject(Bool(FALSE)), OptionsObject(String(Str(<<"t", "r", "u", "e">>)))}

(***************************************************************************)
(* One call of etag(entity, options).                                      *)
(***************************************************************************)
Init ==
    /\ entity \in Entities
    /\ options \in OptionsValues
    /\ pc = "entry"
    /\ isStats = Undefined
    /\ weak = Undefined
    /\ tag = <<>>
    /\ ret = <<>>
    /\ errName = ""
    /\ errMsg = ""
    /\ hashCalls = 0
    /\ statCalls = 0
    /\ entityCalls = 0

\* variant: if (entity === null), which lets undefined through
CheckRequired_Strict ==
    /\ pc = "entry"
    /\ IF entity.t = "null"
       THEN /\ pc' = "threw"
            /\ errName' = "TypeError"
            /\ errMsg' = RequiredMessage
       ELSE /\ pc' = "classify"
            /\ UNCHANGED <<errName, errMsg>>
    /\ UNCHANGED <<entity, options, isStats, weak, tag, ret, hashCalls, statCalls,
                   entityCalls>>

\* if (entity == null) throw new TypeError("argument entity is required")
CheckRequired ==
    /\ pc = "entry"
    /\ IF entity.t \in {"undefined", "null"}
       THEN /\ pc' = "threw"
            /\ errName' = "TypeError"
            /\ errMsg' = RequiredMessage
       ELSE /\ pc' = "classify"
            /\ UNCHANGED <<errName, errMsg>>
    /\ UNCHANGED <<entity, options, isStats, weak, tag, ret, hashCalls, statCalls,
                   entityCalls>>

\* var isStats = isstats(entity); var weak = ...
Classify ==
    /\ pc = "classify"
    /\ isStats' = isstats(entity)
    /\ weak' = ResolveWeak(options, isstats(entity))
    /\ pc' = "validate"
    /\ UNCHANGED <<entity, options, tag, ret, errName, errMsg, hashCalls, statCalls,
                   entityCalls>>

\* if (!isStats && typeof entity !== "string" && !Buffer.isBuffer(entity)) throw ...
Validate ==
    /\ pc = "validate"
    /\ IF ~ToBoolean(isStats) /\ typeof(entity) # "string" /\ ~IsBuffer(entity)
       THEN /\ pc' = "threw"
            /\ errName' = "TypeError"
            /\ errMsg' = InvalidMessage
       ELSE /\ pc' = "generate"
            /\ UNCHANGED <<errName, errMsg>>
    /\ UNCHANGED <<entity, options, isStats, weak, tag, ret, hashCalls, statCalls,
                   entityCalls>>

\* var tag = isStats ? stattag(entity) : ...
GenerateStat ==
    /\ pc = "generate"
    /\ ToBoolean(isStats)
    /\ statCalls' = statCalls + 1
    /\ LET r == stattag(entity)
       IN IF r.threw
          THEN /\ pc' = "threw"
               /\ errName' = "TypeError"
               /\ errMsg' = r.msg
               /\ UNCHANGED tag
          ELSE /\ pc' = "format"
               /\ tag' = r.tag
               /\ UNCHANGED <<errName, errMsg>>
    /\ UNCHANGED <<entity, options, isStats, weak, ret, hashCalls, entityCalls>>

\* var tag = isStats ? ... : entitytag(entity)
GenerateEntity ==
    /\ pc = "generate"
    /\ ~ToBoolean(isStats)
    /\ entityCalls' = entityCalls + 1
    /\ LET r == entitytag(entity)
       IN /\ tag' = r.tag
          /\ hashCalls' = hashCalls + r.hashes
    /\ pc' = "format"
    /\ UNCHANGED <<entity, options, isStats, weak, ret, errName, errMsg, statCalls>>

\* return weak ? "W/" + tag : tag
Format ==
    /\ pc = "format"
    /\ ret' = FormatTag(weak, tag)
    /\ pc' = "done"
    /\ UNCHANGED <<entity, options, isStats, weak, tag, errName, errMsg, hashCalls,
                   statCalls, entityCalls>>

Next ==
    \/ CheckRequired
    \/ Classify
    \/ Validate
    \/ GenerateStat
    \/ GenerateEntity
    \/ Format

Spec == Init /\ [][Next]_vars

(***************************************************************************)
(* Vocabulary of the properties.                                           *)
(***************************************************************************)
Done == pc = "done"
Threw == pc = "threw"
Generated == pc \in {"format", "done"}

IsContent(e) == e.t \in {"string", "buffer"}

\* the four-field shape: ctime and mtime Dates, ino and size numbers
HasStatShape(e) ==
    /\ e.t = "object"
    /\ e.ctime.t = "date"
    /\ e.mtime.t = "date"
    /\ e.ino.t = "number"
    /\ e.size.t = "number"

IsMetadataDescriptor(e) == (e.t = "object" /\ e.stats) \/ HasStatShape(e)

\* the bytes of a content entity and their hexadecimal count
ContentBytes(e) == IF e.t = "string" THEN Utf8Encode(e.s) ELSE e.bytes
Hex(n) == NatToString(n, 16)
HexNumber(n) == NumberToString(n, 16)

IsIntegerNumber(n) == n.k = "fin" /\ n.f = 0

StartsWith(s, p) == Len(s) >= Len(p) /\ SubSeq(s, 1, Len(p)) = p

(***************************************************************************)
(* C1: a returned tag is "W/" + T when the resolved weak flag is true and  *)
(* T otherwise, T being the quoted tag of the entity alone; the flag is    *)
(* options.weak when options is given and options.weak is a boolean, and   *)
(* otherwise true for a metadata descriptor, false for content.  For the   *)
(* same entity the tag under {weak: true} is W/ followed by the tag under  *)
(* {weak: false}.                                                          *)
(***************************************************************************)
C1_WeakFlag ==
    Done =>
        LET override == options.t = "options" /\ options.weak.t = "boolean"
            flag == IF override THEN options.weak.b ELSE IsMetadataDescriptor(entity)
            T == IF IsMetadataDescriptor(entity) THEN stattag(entity).tag
                 ELSE entitytag(entity).tag
            asWeak == FormatTag(ResolveWeak(OptionsObject(Bool(TRUE)), isStats), tag)
            asStrong == FormatTag(ResolveWeak(OptionsObject(Bool(FALSE)), isStats), tag)
        IN /\ ret = (IF flag THEN WeakPrefix \o T ELSE T)
           /\ StartsWith(asWeak, WeakPrefix \o Quote)
           /\ asWeak = WeakPrefix \o asStrong

C1_Witness ==
    /\ Done
    /\ entity = String(HelloWorld)
    /\ options = OptionsObject(Bool(TRUE))
    /\ ret = WeakPrefix \o tag

C3_ContentTag ==
    (Done /\ IsContent(entity) /\ Length(entity) > 0) =>
        LET bytes == ContentBytes(entity)
            D == SubSeq(Base64Encode(Sha1(bytes)), 1, 27)
        IN /\ Len(D) = 27
           /\ tag = Quote \o Hex(Len(bytes)) \o Hyphen \o D \o Quote
           /\ entity = String(<<8364>>) => StartsWith(tag, Quote \o Str(<<"3", "-">>))
           /\ entity = String(HelloWorld) =>
                  tag = Str(<<"\"", "b", "-", "K", "q", "5", "s", "N", "c", "l", "P", "z",
                              "7", "Q", "V", "2", "+", "l", "f", "Q", "I", "u", "c", "6",
                              "R", "7", "o", "R", "u", "0", "\"">>)

C3_Witness ==
    /\ Done
    /\ entity = String(<<8364>>)
    /\ Len(entity.s) = 1
    /\ StartsWith(ret, Quote \o Str(<<"3", "-">>))

(***************************************************************************)
(* C4: empty content with default options gives the fixed tag              *)
(* "0-2jmj7l5rSw0yVb/vlWAYkK/YBwk", which is what the general content      *)
(* algorithm produces for zero bytes.                                      *)
(***************************************************************************)
C4_EmptyTag ==
    (Done /\ IsContent(entity) /\ Length(entity) = 0 /\ options = Undefined) =>
        /\ ret = Str(<<"\"", "0", "-", "2", "j", "m", "j", "7", "l", "5", "r", "S", "w",
                       "0", "y", "V", "b", "/", "v", "l", "W", "A", "Y", "k", "K", "/",
                       "Y", "B", "w", "k", "\"">>)
        /\ ret = Quote \o Hex(0) \o Hyphen
                 \o SubSeq(Base64Encode(Sha1(<<>>)), 1, 27) \o Quote

C4_Witness ==
    /\ Done
    /\ entity = BufferOf(<<>>)
    /\ options = Undefined
    /\ Len(ret) = 31

(***************************************************************************)
(* C5: the call ends in the TypeError "argument entity is required"        *)
(* exactly when the entity is null or undefined, and in the TypeError      *)
(* "argument entity must be string, Buffer, or fs.Stats" exactly when the  *)
(* entity is present and is neither a metadata descriptor nor a string nor *)
(* a Buffer; this holds for every options value, and no tag is returned.   *)
(***************************************************************************)
C5_InvalidArgument ==
    (Done \/ Threw) =>
        LET missing == entity.t \in {"undefined", "null"}
            unsupported == ~missing /\ ~IsMetadataDescriptor(entity) /\ ~IsContent(entity)
            required == Threw /\ errName = "TypeError"
                        /\ errMsg = "argument entity is required"
            invalid == Threw /\ errName = "TypeError"
                       /\ errMsg = "argument entity must be string, Buffer, or fs.Stats"
        IN /\ missing <=> required
           /\ unsupported <=> invalid
           /\ (required \/ invalid) => (ret = <<>> /\ tag = <<>>)

C5_Witness ==
    /\ Threw
    /\ entity = Number(Integer(42))
    /\ options = OptionsObject(Bool(TRUE))
    /\ errMsg = "argument entity must be string, Buffer, or fs.Stats"

(***************************************************************************)
(* C6: an entity is classified as a metadata descriptor iff it is a native *)
(* Stats instance or an object with Date ctime, Date mtime, numeric ino    *)
(* and numeric size; any other object is rejected; and of the metadata     *)
(* path and the content path exactly one runs in a call that passes        *)
(* validation, the one the classification names.                           *)
(***************************************************************************)
C6_Classification ==
    /\ pc \in {"validate", "generate", "format", "done"} =>
           (ToBoolean(isStats) <=> IsMetadataDescriptor(entity))
    /\ statCalls + entityCalls <= 1
    /\ (Generated \/ (Threw /\ errMsg \notin {RequiredMessage, InvalidMessage})) =>
           /\ statCalls + entityCalls = 1
           /\ (statCalls = 1) <=> IsMetadataDescriptor(entity)
    /\ (Threw /\ errMsg \in {RequiredMessage, InvalidMessage}) =>
           statCalls + entityCalls = 0
    /\ ((Done \/ Threw) /\ entity.t = "object" /\ ~IsMetadataDescriptor(entity)) =>
           (Threw /\ errMsg = InvalidMessage)

C6_Witness ==
    /\ Done
    /\ entity = Object(FALSE, DateOf(Integer(0)), DateOf(Integer(1)),
                       Number(Integer(0)), Number(Integer(1)))
    /\ statCalls = 1
    /\ entityCalls = 0

(***************************************************************************)
(* C7: no error other than the two validation errors is raised: every      *)
(* entity that passes validation, any native Stats instance included,      *)
(* yields a tag.                                                           *)
(***************************************************************************)
C7_NoOtherError ==
    Threw => (errMsg \in {RequiredMessage, InvalidMessage} /\ statCalls + entityCalls = 0)

(***************************************************************************)
(* C8: createHash is called at most once per call, and only for validated  *)
(* non-empty string/Buffer content: never for empty content, never for a   *)
(* metadata descriptor, never in a call that ends in an error.             *)
(***************************************************************************)
C8_HashCalls ==
    /\ hashCalls <= 1
    /\ hashCalls = 1 =>
           (Generated /\ IsContent(entity) /\ Length(entity) > 0
            /\ ~IsMetadataDescriptor(entity))
    /\ Threw => hashCalls = 0
    /\ (Done /\ IsContent(entity) /\ Length(entity) > 0) => hashCalls = 1

C8_Witness ==
    /\ Done
    /\ entity = String(<<>>)
    /\ entityCalls = 1
    /\ hashCalls = 0

(***************************************************************************)
(* C9: every returned tag is an optional W/, a double quote, a body of hex *)
(* digits, base64 characters and hyphens only (so no double quote), and a  *)
(* double quote, on the content path, the empty fast path and the metadata *)
(* path, native Stats instances included.                                  *)
(***************************************************************************)
BodyAlphabet == {Base64Alphabet[i] : i \in 1..64} \cup {Ord("-")}

IsQuotedTag(s) ==
    /\ Len(s) >= 2
    /\ s[1] = Ord("\"")
    /\ s[Len(s)] = Ord("\"")
    /\ \A i \in 2..(Len(s) - 1) : s[i] \in BodyAlphabet

C9_TagShape ==
    Done => \/ IsQuotedTag(ret)
            \/ (StartsWith(ret, WeakPrefix) /\ IsQuotedTag(SubSeq(ret, 3, Len(ret))))

(***************************************************************************)
(* C10: on the metadata path, for non-negative integer sizes and integer   *)
(* mtime millisecond values (negative ones included) and the same weak     *)
(* flag, two tags are equal iff the sizes are equal and the mtimes are     *)
(* equal.                                                                  *)
(***************************************************************************)
IntegerSizes == {n \in Sizes : IsIntegerNumber(n) /\ ~n.neg}
IntegerTimes == {t \in Times : IsIntegerNumber(t)}

C10_Injective ==
    (/\ Done
     /\ IsMetadataDescriptor(entity)
     /\ entity.size.t = "number" /\ entity.size.n \in IntegerSizes
     /\ entity.mtime.t = "date" /\ entity.mtime.time \in IntegerTimes) =>
        \A s2 \in IntegerSizes, t2 \in IntegerTimes :
            LET other == [entity EXCEPT !.size = Number(s2), !.mtime = DateOf(t2)]
            IN (FormatTag(weak, stattag(other).tag) = ret)
                   <=> (s2 = entity.size.n /\ t2 = entity.mtime.time)

C10_Witness ==
    /\ Done
    /\ IsMetadataDescriptor(entity)
    /\ entity.size = Number(Integer(1))
    /\ entity.mtime = DateOf(Integer(-1))
    /\ ret = WeakPrefix \o Quote \o Str(<<"1", "-", "-", "1">>) \o Quote

====
